---- MODULE Spec2Model ----
(***************************************************************************)
(* StadiumGraph: a weighted undirected graph over normalized stadium       *)
(* names (QMap<QString, QMap<QString, double>> adjMatrix) and the          *)
(* algorithms that read it.                                                *)
(*                                                                         *)
(* A QString is a sequence of one-character strings; the empty QString is  *)
(* <<>>.  A double distance is an integer; +infinity is Infinity, a value  *)
(* larger than the weight of any walk the algorithms can add up.           *)
(* adjMatrix[k] in a const member function reads the neighbor map stored   *)
(* under k (an empty map when k is no key) and inserts nothing.            *)
(*                                                                         *)
(* call, ret, path and mstEdges are what the caller holds after the last   *)
(* public call: which call it was, its return value and its out-parameter. *)
(***************************************************************************)
EXTENDS Integers, Sequences, FiniteSets, TLC

VARIABLES adjMatrix, call, ret, path, mstEdges

vars == <<adjMatrix, call, ret, path, mstEdges>>

(* ------------------------------ bounds --------------------------------- *)

\* Largest distance passed to addEdge when the store is edited and when
\* spanning trees are built.
MaxDist == 2

\* Largest distance passed to addEdge when shortest paths are searched.
MaxWeight == 3

(* ---------------------------- characters ------------------------------- *)

LowerChars == {"a", "b"}
DigitChars == {"1"}
SpaceChars == {" "}
\* U+2013 en dash, U+2014 em dash, U+2012 figure dash, U+2015 horizontal bar
DashChars == {"u2013", "u2014", "u2012", "u2015"}

\* QString::toLower on one character
toLower(c) ==
    CASE c = "A" -> "a"
      [] c = "B" -> "b"
      [] OTHER -> c

\* n.replace(QChar(0x2013), '-') and the three replacements after it
replaceDash(c) == IF c \in DashChars THEN "-" ELSE c

\* the characters QRegularExpression("[^a-z0-9]") leaves in place
isAlnum(c) == c \in LowerChars \cup DigitChars

RECURSIVE dropLeadingSpace(_)
dropLeadingSpace(s) ==
    IF s # <<>> /\ Head(s) \in SpaceChars THEN dropLeadingSpace(Tail(s)) ELSE s

RECURSIVE dropTrailingSpace(_)
dropTrailingSpace(s) ==
    IF s # <<>> /\ s[Len(s)] \in SpaceChars
    THEN dropTrailingSpace(SubSeq(s, 1, Len(s) - 1))
    ELSE s

\* QString::trimmed
trimmed(s) == dropTrailingSpace(dropLeadingSpace(s))

\* QString::toLower
toLowerAll(s) == [i \in 1..Len(s) |-> toLower(s[i])]

\* the four n.replace(dash, '-')
replaceDashes(s) == [i \in 1..Len(s) |-> replaceDash(s[i])]

\* QString::remove(QRegularExpression("[^a-z0-9]"))
removeNonAlnum(s) == SelectSeq(s, isAlnum)

normalizeStadiumName(name) ==
    IF trimmed(name) = <<>> THEN <<>>
    ELSE LET n1 == toLowerAll(trimmed(name))
             n2 == replaceDashes(n1)
             n3 == removeNonAlnum(n2)
             \* n.simplified().replace(" ", ""): no space is left in n3
             n4 == SelectSeq(n3, LAMBDA c : c \notin SpaceChars)
         IN  n4

(* ------------------------------ key order ----------------------------- *)

\* code point of a character that can occur in a key
charCode(c) ==
    CASE c = "1" -> 49
      [] c = "a" -> 97
      [] c = "b" -> 98
      [] OTHER -> 0

\* operator< of QString, the order of a QMap's keys
RECURSIVE keyLess(_, _)
keyLess(x, y) ==
    IF y = <<>> THEN FALSE
    ELSE IF x = <<>> THEN TRUE
    ELSE IF charCode(Head(x)) # charCode(Head(y))
         THEN charCode(Head(x)) < charCode(Head(y))
         ELSE keyLess(Tail(x), Tail(y))

\* QMap::keys(): the keys of a map in ascending order
RECURSIVE sortedKeys(_)
sortedKeys(S) ==
    IF S = {} THEN <<>>
    ELSE LET m == CHOOSE k \in S : \A j \in S \ {k} : keyLess(k, j)
         IN  <<m>> \o sortedKeys(S \ {m})

(* ------------------------------- names --------------------------------- *)

\* Raw names a caller passes to addStadium / addEdge.
RawNames ==
    { <<"a">>, <<" ", "A", "-">>,
      <<"B", "u2013">>,
      <<"A", " ", "b">>,
      <<" ">>, <<"-", "u2014">> }

\* The keys the raw names normalize to.
AllKeys == {normalizeStadiumName(n) : n \in RawNames \cup {<<"1">>}} \ {<<>>}

\* Distances a caller passes to addEdge (a double; 0 and negatives included).
Distances == 0..MaxDist

\* Names and path contents a caller passes to the shortest-path calls.
CallNames == { <<"a">>, <<"a", "b">>, <<"B", "u2013">>, <<" ">> }
CallPaths == { <<>>, << <<"b">>, <<"a">> >> }

\* addEdge calls made while the algorithms are run: every pair of keys with
\* every weight, and one call whose two names normalize to the same key.
EdgeCalls ==
    { <<f, t, d>> : f \in {<<"a">>}, t \in {<<"B", "u2013">>}, d \in 1..MaxWeight }
    \cup { <<f, t, d>> : f \in {<<"A", " ", "b">>}, t \in {<<"a">>}, d \in 1..MaxWeight }
    \cup { <<f, t, d>> : f \in {<<"B", "u2013">>}, t \in {<<"a", "b">>}, d \in 1..MaxWeight }
    \cup { << <<"a">>, <<" ", "A", "-">>, 1 >> }

StadiumCalls == { <<"a">>, <<"A", " ", "b">>, <<"B", "u2013">> }

\* Names, addEdge calls and edge lists a caller passes while spanning trees
\* are built: every pair of keys with every weight, one way round, and one
\* call whose two names normalize to the same key.
MstNames == { <<"1">>, <<"a">>, <<"A", " ", "b">>, <<"B", "u2013">> }
MstEdgeCalls ==
    { e \in { <<f, t, d>> : f \in MstNames, t \in MstNames, d \in 1..MaxDist } :
        keyLess(normalizeStadiumName(e[1]), normalizeStadiumName(e[2])) }
    \cup { << <<"a">>, <<" ", "A", "-">>, 1 >> }
MstEdgeLists == { <<>>, << <<<<"b">>, <<"a">>>> >> }

\* The most stops a caller passes to greedyTrip.
MaxStops == 2

\* What a caller passes while trips are planned: the addEdge calls (every
\* pair of keys with every weight, and one call whose two names normalize to
\* the same key), the start names, the stops (the three keys under other
\* spellings) and the contents of order (empty, or a key left by another use).
TripEdgeCalls ==
    { <<f, t, d>> : f \in {<<"a">>}, t \in {<<"B", "u2013">>}, d \in 1..MaxDist }
    \cup { <<f, t, d>> : f \in {<<"A", " ", "b">>}, t \in {<<"a">>}, d \in 1..MaxDist }
    \cup { <<f, t, d>> : f \in {<<"B", "u2013">>}, t \in {<<"a", "b">>}, d \in 1..MaxDist }
    \cup { << <<"a">>, <<" ", "A", "-">>, 1 >> }
TripStarts == { <<"a">>, <<"A", " ", "b">> }
TripNames == { <<"a">>, <<"A", " ", "b">>, <<"B", "u2013">> }
TripStops == UNION { [1..n -> TripNames] : n \in 0..MaxStops }
TripOrders == { <<>>, << <<"1">> >> }

\* What a caller passes while the store is traversed: the addEdge calls (the
\* three pairs of a, ab and b and the pair of 1 and a, with every weight, and
\* one call whose two names normalize to the same key), the start names,
\* which dfs / bfs look up as they are (the four keys, and one spelling that
\* is a key only once normalized), and the contents of order, left by
\* another use.
TraverseEdgeCalls ==
    { e \in MstEdgeCalls : <<"1">> \notin {e[1], e[2]} \/ <<"a">> \in {e[1], e[2]} }
TraverseNames == { <<"1">>, <<"a">>, <<"a", "b">>, <<"b">>, <<"B", "u2013">> }
TraverseOrders == { << <<"b">>, <<"a">> >> }

\* What a caller passes while the store is only read: the stops of a trip
\* and the contents of path, order and mstEdges.
QueryStops ==
    { <<>>,
      << <<"B", "u2013">>, <<" ">> >>,
      << <<"a">>, <<"A", " ", "b">> >> }
QueryPaths == { <<>> }
QueryEdgeLists == { <<>> }

\* Every name the calls above pass, and every key they normalize to.
CalledNames ==
    RawNames \cup CallNames \cup StadiumCalls \cup MstNames \cup TripNames
    \cup TraverseNames
    \cup {e[1] : e \in EdgeCalls} \cup {e[2] : e \in EdgeCalls}
NameUniverse ==
    CalledNames \cup {normalizeStadiumName(n) : n \in CalledNames \cup {<<"1">>}}

\* normalizeStadiumName, tabulated over the names of the model
normalized == [n \in NameUniverse |-> normalizeStadiumName(n)]
normalizeStadiumNameOf(name) == normalized[name]

(* ------------------------------- store --------------------------------- *)

\* QMap<QString, double>() : the empty neighbor map
emptyNeighbors == [k \in {} |-> 0]

\* m[k] = v on a QMap
put(m, k, v) == [x \in DOMAIN m \cup {k} |-> IF x = k THEN v ELSE m[x]]

\* m.remove(k) for every k of a set
removeKeys(m, bad) == [x \in DOMAIN m \ bad |-> m[x]]

\* no call has been made
NoCall == [op |-> "none"]

\* a void mutation hands the caller nothing
noResult(op) ==
    /\ call' = [op |-> op]
    /\ ret' = 0
    /\ path' = <<>>
    /\ mstEdges' = <<>>

\* the store after addStadium(name)
addStadiumStore(adj, name) ==
    LET norm == normalizeStadiumNameOf(name)
    IN  IF norm = <<>> THEN adj
        ELSE IF norm \notin DOMAIN adj THEN put(adj, norm, emptyNeighbors)
        ELSE adj

addEdgeStore_Accumulates(adj, from, to, distance) ==
    LET nFrom == normalizeStadiumNameOf(from)
        nTo == normalizeStadiumNameOf(to)
    IN  IF nFrom = <<>> \/ nTo = <<>> THEN adj
        ELSE IF distance <= 0 THEN adj
        ELSE LET a1 == addStadiumStore(adj, nFrom)
                 a2 == addStadiumStore(a1, nTo)
                 old == IF nTo \in DOMAIN a2[nFrom] THEN a2[nFrom][nTo] ELSE 0
                 a3 == put(a2, nFrom, put(a2[nFrom], nTo, old + distance))
                 a4 == put(a3, nTo, put(a3[nTo], nFrom, old + distance))
             IN  a4

addEdgeStore_OneWay(adj, from, to, distance) ==
    LET nFrom == normalizeStadiumNameOf(from)
        nTo == normalizeStadiumNameOf(to)
    IN  IF nFrom = <<>> \/ nTo = <<>> THEN adj
        ELSE IF distance <= 0 THEN adj
        ELSE LET a1 == addStadiumStore(adj, nFrom)
                 a2 == addStadiumStore(a1, nTo)
             IN  put(a2, nFrom, put(a2[nFrom], nTo, distance))

addEdgeStore_CreatesFirst(adj, from, to, distance) ==
    LET nFrom == normalizeStadiumNameOf(from)
        nTo == normalizeStadiumNameOf(to)
        a1 == addStadiumStore(adj, nFrom)
        a2 == addStadiumStore(a1, nTo)
    IN  IF nFrom = <<>> \/ nTo = <<>> THEN a2
        ELSE IF distance <= 0 THEN a2
        ELSE LET a3 == put(a2, nFrom, put(a2[nFrom], nTo, distance))
                 a4 == put(a3, nTo, put(a3[nTo], nFrom, distance))
             IN  a4

\* the store after addEdge(from, to, distance)
addEdgeStore(adj, from, to, distance) ==
    LET nFrom == normalizeStadiumNameOf(from)
        nTo == normalizeStadiumNameOf(to)
    IN  IF nFrom = <<>> \/ nTo = <<>> THEN adj
        ELSE IF distance <= 0 THEN adj
        ELSE LET a1 == addStadiumStore(adj, nFrom)
                 a2 == addStadiumStore(a1, nTo)
             IN  IF nFrom \notin DOMAIN a2 \/ nTo \notin DOMAIN a2 THEN a2
                 ELSE LET a3 == put(a2, nFrom, put(a2[nFrom], nTo, distance))
                          a4 == put(a3, nTo, put(a3[nTo], nFrom, distance))
                      IN  a4

storeAfterConst_Inserts(adj, looked) ==
    [k \in DOMAIN adj \cup (looked \ {<<>>}) |->
        IF k \in DOMAIN adj THEN adj[k] ELSE emptyNeighbors]

\* The queries and the algorithms are const members: they reach adjMatrix
\* through contains(), keys(), size() and the const operator[], which hands
\* back a copy and inserts nothing.  The store after such a call that looked
\* up the keys of looked.
storeAfterConst(adj, looked) == adj

\* getDistance(from, to) on a store
getDistanceIn(adj, from, to) ==
    LET nFrom == normalizeStadiumNameOf(from)
        nTo == normalizeStadiumNameOf(to)
    IN  IF nFrom \in DOMAIN adj /\ nTo \in DOMAIN adj[nFrom]
        THEN adj[nFrom][nTo]
        ELSE -1

getDistance(from, to) == getDistanceIn(adjMatrix, from, to)

\* the store after cleanAdjacencyMatrix()
cleanAdjacencyMatrixStore(adj) ==
    LET emptyStadiums == {s \in DOMAIN adj : trimmed(s) = <<>>}
        cleaned == [s \in DOMAIN adj |->
                      IF s \in emptyStadiums THEN adj[s]
                      ELSE removeKeys(adj[s],
                                      {n \in DOMAIN adj[s] : trimmed(n) = <<>>})]
    IN  removeKeys(cleaned, emptyStadiums)

\* the store after removeEmptyKeysAndNeighbors()
removeEmptyKeysAndNeighborsStore(adj) ==
    LET badKeys == {k \in DOMAIN adj : trimmed(k) = <<>>}
        kept == removeKeys(adj, badKeys)
    IN  [s \in DOMAIN kept |->
           removeKeys(kept[s], {n \in DOMAIN kept[s] : trimmed(n) = <<>>})]

(* ------------------------------ actions -------------------------------- *)

Init ==
    /\ adjMatrix = [k \in {} |-> emptyNeighbors]
    /\ call = NoCall
    /\ ret = 0
    /\ path = <<>>
    /\ mstEdges = <<>>

\* call records the last public call: for a mutation, which of its
\* branches ran; for an algorithm, its arguments.
addStadium(name) ==
    /\ adjMatrix' = addStadiumStore(adjMatrix, name)
    /\ call' = [op |-> "addStadium",
                created |-> normalizeStadiumNameOf(name) # <<>>
                            /\ normalizeStadiumNameOf(name) \notin DOMAIN adjMatrix]
    /\ ret' = 0
    /\ path' = <<>>
    /\ mstEdges' = <<>>

addEdge(from, to, distance) ==
    /\ adjMatrix' = addEdgeStore(adjMatrix, from, to, distance)
    /\ LET rejected == \/ normalizeStadiumNameOf(from) = <<>>
                        \/ normalizeStadiumNameOf(to) = <<>>
                        \/ distance <= 0
           old == getDistance(from, to)
       IN  call' = [op |-> "addEdge",
                    rejected |-> rejected,
                    replaced |-> ~rejected /\ old # -1 /\ old # distance]
    /\ ret' = 0
    /\ path' = <<>>
    /\ mstEdges' = <<>>

clear ==
    /\ adjMatrix' = [k \in {} |-> emptyNeighbors]
    /\ noResult("clear")

cleanAdjacencyMatrix ==
    /\ adjMatrix' = cleanAdjacencyMatrixStore(adjMatrix)
    /\ noResult("cleanAdjacencyMatrix")

removeEmptyKeysAndNeighbors ==
    /\ adjMatrix' = removeEmptyKeysAndNeighborsStore(adjMatrix)
    /\ noResult("removeEmptyKeysAndNeighbors")

Next ==
    \/ \E name \in RawNames : addStadium(name)
    \/ \E from \in RawNames, to \in RawNames, distance \in Distances :
          addEdge(from, to, distance)
    \/ clear
    \/ cleanAdjacencyMatrix
    \/ removeEmptyKeysAndNeighbors

Spec == Init /\ [][Next]_vars

(* ----------------------------- dijkstra -------------------------------- *)

\* std::numeric_limits<double>::infinity(): above every sum of distinct edges
Infinity == MaxWeight * (Cardinality(AllKeys) + 1) * (Cardinality(AllKeys) + 1) + 1

\* the minimum of a non-empty set of numbers
minOf(S) == CHOOSE m \in S : \A x \in S : m <= x

relaxNeighbors_StalePrevious(adj, current, nbrs, distances, previous, unvisited) ==
    LET improved == {n \in DOMAIN adj[current] :
                       /\ n \in unvisited
                       /\ n \in DOMAIN distances
                       /\ distances[current] + adj[current][n] < distances[n]}
        first == {n \in improved : n \notin DOMAIN previous}
    IN  [distances |-> [k \in DOMAIN distances |->
                          IF k \in improved
                          THEN distances[current] + adj[current][k]
                          ELSE distances[k]],
         previous |-> [k \in DOMAIN previous \cup first |->
                          IF k \in first THEN current ELSE previous[k]]]

relaxNeighbors_KeepsFirst(adj, current, nbrs, distances, previous, unvisited) ==
    LET fresh == {n \in DOMAIN adj[current] :
                    /\ n \in unvisited
                    /\ n \in DOMAIN distances
                    /\ distances[n] = Infinity}
    IN  [distances |-> [k \in DOMAIN distances |->
                          IF k \in fresh
                          THEN distances[current] + adj[current][k]
                          ELSE distances[k]],
         previous |-> [k \in DOMAIN previous \cup fresh |->
                          IF k \in fresh THEN current ELSE previous[k]]]

\* lines 149-178: the relaxation of the neighbors of current, in key order
RECURSIVE relaxNeighbors(_, _, _, _, _, _)
relaxNeighbors(adj, current, nbrs, distances, previous, unvisited) ==
    IF nbrs = <<>> THEN [distances |-> distances, previous |-> previous]
    ELSE LET neighbor == Head(nbrs)
             edgeWeight == adj[current][neighbor]
             skip == \/ trimmed(neighbor) = <<>>
                     \/ neighbor \notin DOMAIN adj
                     \/ neighbor \notin unvisited
                     \/ neighbor \notin DOMAIN distances
                     \/ edgeWeight <= 0
             alt == distances[current] + edgeWeight
         IN  IF ~skip /\ alt < distances[neighbor]
             THEN relaxNeighbors(adj, current, Tail(nbrs),
                                 put(distances, neighbor, alt),
                                 put(previous, neighbor, current), unvisited)
             ELSE relaxNeighbors(adj, current, Tail(nbrs),
                                 distances, previous, unvisited)

\* lines 117-179: the main loop.  The scan of the QSet unvisited keeps the
\* first stadium of least distance in the set's iteration order, which is any
\* stadium of least distance.  The result is the set of the final
\* (distances, previous) the loop can end with, each with the iterationCount
\* it ended at and whether it ended on iterationCount with stadiums left.
RECURSIVE dijkstraLoop(_, _, _, _, _, _, _)
dijkstraLoop(adj, nEnd, distances, previous, unvisited, iterationCount, MAX_ITERATIONS) ==
    LET ended == {[distances |-> distances, previous |-> previous,
                   iterationCount |-> iterationCount,
                   capped |-> unvisited # {}]}
        broke == {[distances |-> distances, previous |-> previous,
                   iterationCount |-> iterationCount + 1,
                   capped |-> FALSE]}
    IN  IF ~(unvisited # {} /\ iterationCount < MAX_ITERATIONS) THEN ended
        ELSE LET scanned == {s \in unvisited : s \in DOMAIN distances}
                 finite == {s \in scanned : distances[s] < Infinity}
                 minDist == IF finite = {} THEN Infinity
                            ELSE minOf({distances[s] : s \in finite})
                 currents == {s \in finite : distances[s] = minDist}
             IN  IF currents = {} THEN broke
                 ELSE UNION {
                    IF current = nEnd THEN broke
                    ELSE IF current \notin DOMAIN adj THEN broke
                    ELSE LET r == relaxNeighbors(adj, current,
                                       sortedKeys(DOMAIN adj[current]),
                                       distances, previous,
                                       unvisited \ {current})
                         IN  dijkstraLoop(adj, nEnd, r.distances, r.previous,
                                          unvisited \ {current},
                                          iterationCount + 1, MAX_ITERATIONS)
                    : current \in currents }

\* lines 186-219: the walk back over previous from nEnd to nStart, with the
\* pathLength it ended at and whether it failed on pathLength
RECURSIVE reconstruct(_, _, _, _, _, _, _)
reconstruct(nStart, previous, current, visitedForLoop, pathLength, MAX_PATH_LENGTH, p) ==
    IF current # nStart /\ pathLength < MAX_PATH_LENGTH
    THEN IF current \in visitedForLoop
         THEN [ok |-> FALSE, path |-> <<>>, pathLength |-> pathLength,
               capped |-> FALSE]
         ELSE IF current \notin DOMAIN previous
         THEN [ok |-> FALSE, path |-> <<>>, pathLength |-> pathLength + 1,
               capped |-> FALSE]
         ELSE reconstruct(nStart, previous, previous[current],
                          visitedForLoop \cup {current}, pathLength + 1,
                          MAX_PATH_LENGTH, <<current>> \o p)
    ELSE IF pathLength >= MAX_PATH_LENGTH
         THEN [ok |-> FALSE, path |-> <<>>, pathLength |-> pathLength,
               capped |-> TRUE]
    ELSE [ok |-> TRUE, path |-> <<nStart>> \o p, pathLength |-> pathLength,
          capped |-> FALSE]

\* dijkstra(start, end, path) on a store: the runs it can take, each with
\* the (ret, path) it returns, the counts its two loops ended at and whether
\* either loop ended on its count; path0 is what the caller's path held.
dijkstraRuns(adj, start, end, path0) ==
    LET nStart == normalizeStadiumNameOf(start)
        nEnd == normalizeStadiumNameOf(end)
        failed == {[ret |-> -1, path |-> <<>>, iterationCount |-> 0,
                    pathLength |-> 0, capped |-> FALSE]}
    IN  IF nStart = <<>> \/ nEnd = <<>> THEN failed
        ELSE IF nStart \notin DOMAIN adj \/ nEnd \notin DOMAIN adj THEN failed
        ELSE LET stadiums == {s \in DOMAIN adj : trimmed(s) # <<>>}
                 distances == put([s \in stadiums |-> Infinity], nStart, 0)
                 previous == [s \in {} |-> <<>>]
                 finals == dijkstraLoop(adj, nEnd, distances, previous,
                                        stadiums, 0, Cardinality(DOMAIN adj) * 2)
             IN  { IF nEnd \notin DOMAIN f.distances \/ f.distances[nEnd] = Infinity
                   THEN [ret |-> -1, path |-> <<>>,
                         iterationCount |-> f.iterationCount,
                         pathLength |-> 0, capped |-> f.capped]
                   ELSE LET w == reconstruct(nStart, f.previous, nEnd, {}, 0,
                                             Cardinality(DOMAIN adj) + 1, <<>>)
                            failing == \/ ~w.ok
                                       \/ w.path = <<>>
                                       \/ Head(w.path) # nStart
                                       \/ w.path[Len(w.path)] # nEnd
                        IN  [ret |-> IF failing THEN -1 ELSE f.distances[nEnd],
                             path |-> IF failing THEN <<>> ELSE w.path,
                             iterationCount |-> f.iterationCount,
                             pathLength |-> w.pathLength,
                             capped |-> f.capped \/ w.capped]
                   : f \in finals }

\* the set of the (ret, path) dijkstra can return
dijkstraOutcomes(adj, start, end, path0) ==
    {[ret |-> r.ret, path |-> r.path] : r \in dijkstraRuns(adj, start, end, path0)}

dijkstra(start, end, path0) ==
    \E out \in dijkstraOutcomes(adjMatrix, start, end, path0) :
        /\ call' = [op |-> "dijkstra", start |-> start, end |-> end, path0 |-> path0]
        /\ ret' = out.ret
        /\ path' = out.path
        /\ adjMatrix' = storeAfterConst(adjMatrix, {normalizeStadiumNameOf(start),
                                                    normalizeStadiumNameOf(end)})
        /\ UNCHANGED mstEdges

(* ------------------------------- aStar --------------------------------- *)

\* m[k] on a non-const QMap<QString, double>: 0.0 when k is not a key
valueOrZero(m, k) == IF k \in DOMAIN m THEN m[k] ELSE 0

\* openSet[f].insert(stadium) on the QMap<double, QSet<QString>>
openInsert(openSet, f, stadium) ==
    put(openSet, f, (IF f \in DOMAIN openSet THEN openSet[f] ELSE {}) \cup {stadium})

\* lines 254-257: openSet[f].remove(stadium), and openSet.remove(f) when empty
openRemove(openSet, f, stadium) ==
    IF openSet[f] \ {stadium} = {} THEN removeKeys(openSet, {f})
    ELSE put(openSet, f, openSet[f] \ {stadium})

\* lines 273-289: the neighbors of current, in key order
RECURSIVE aStarNeighbors(_, _, _, _, _, _, _, _)
aStarNeighbors(adj, current, nbrs, openSet, closedSet, g_score, f_score, came_from) ==
    IF nbrs = <<>>
    THEN [openSet |-> openSet, g_score |-> g_score, f_score |-> f_score,
          came_from |-> came_from]
    ELSE LET neighbor == Head(nbrs)
             tentative_g_score == valueOrZero(g_score, current) + adj[current][neighbor]
         IN  IF neighbor \notin closedSet
                /\ tentative_g_score < valueOrZero(g_score, neighbor)
             THEN aStarNeighbors(adj, current, Tail(nbrs),
                                 openInsert(openSet, tentative_g_score, neighbor),
                                 closedSet,
                                 put(g_score, neighbor, tentative_g_score),
                                 put(f_score, neighbor, tentative_g_score),
                                 put(came_from, neighbor, current))
             ELSE aStarNeighbors(adj, current, Tail(nbrs), openSet, closedSet,
                                 g_score, f_score, came_from)

\* lines 261-266: the walk back over came_from; came_from[current] on a key
\* that is missing yields the empty string, which the loop never leaves
RECURSIVE aStarPath(_, _, _, _)
aStarPath(start, came_from, current, p) ==
    IF current = start THEN [terminates |-> TRUE, path |-> <<start>> \o p]
    ELSE IF current \notin DOMAIN came_from THEN [terminates |-> FALSE, path |-> p]
    ELSE aStarPath(start, came_from, came_from[current], <<current>> \o p)

\* lines 250-292: the open-set loop.  *openSet[current_f].begin() is the first
\* stadium of the QSet in its iteration order, which is any stadium of it.
RECURSIVE aStarLoop(_, _, _, _, _, _, _, _, _)
aStarLoop(adj, start, end, openSet, closedSet, g_score, f_score, came_from, path0) ==
    IF DOMAIN openSet = {} THEN {[ret |-> -1, path |-> path0, terminates |-> TRUE]}
    ELSE LET current_f == minOf(DOMAIN openSet)
         IN  UNION {
               LET open1 == openRemove(openSet, current_f, current)
               IN  IF current = end
                   THEN LET w == aStarPath(start, came_from, current, <<>>)
                        IN  {[ret |-> g_score[end], path |-> w.path,
                              terminates |-> w.terminates]}
                   ELSE LET r == aStarNeighbors(adj, current,
                                     sortedKeys(DOMAIN adj[current]), open1,
                                     closedSet \cup {current},
                                     g_score, f_score, came_from)
                        IN  aStarLoop(adj, start, end, r.openSet,
                                      closedSet \cup {current}, r.g_score,
                                      r.f_score, r.came_from, path0)
               : current \in openSet[current_f] }

\* aStar(start, end, path) on a store: the set of the (ret, path) it can
\* return; path0 is what the caller's path held.
aStarOutcomes(adj, start, end, path0) ==
    IF start \notin DOMAIN adj \/ end \notin DOMAIN adj
    THEN {[ret |-> -1, path |-> path0, terminates |-> TRUE]}
    ELSE LET scores == put([s \in DOMAIN adj |-> Infinity], start, 0)
         IN  aStarLoop(adj, start, end, [f \in {0} |-> {start}], {},
                       scores, scores, [s \in {} |-> <<>>], path0)

aStar(start, end, path0) ==
    \E out \in aStarOutcomes(adjMatrix, start, end, path0) :
        /\ out.terminates
        /\ call' = [op |-> "aStar", start |-> start, end |-> end, path0 |-> path0]
        /\ ret' = out.ret
        /\ path' = out.path
        /\ adjMatrix' = storeAfterConst(adjMatrix, {start, end})
        /\ UNCHANGED mstEdges

NextPath ==
    \/ \E name \in StadiumCalls : addStadium(name)
    \/ \E e \in EdgeCalls : addEdge(e[1], e[2], e[3])
    \/ \E start \in CallNames, end \in CallNames, path0 \in CallPaths :
          dijkstra(start, end, path0)
    \/ \E start \in CallNames, end \in CallNames, path0 \in CallPaths :
          aStar(start, end, path0)

SpecPath == Init /\ [][NextPath]_vars

(* ------------------------ minimumSpanningTree -------------------------- *)

\* lines 319-324: the first unvisited stadium, in key order, of least key
\* below infinity; <<>> when there is none
mstCurrent(adj, visited, key) ==
    LET cands == {s \in DOMAIN adj \ visited : valueOrZero(key, s) < Infinity}
    IN  IF cands = {} THEN <<>>
        ELSE LET minKey == minOf({valueOrZero(key, s) : s \in cands})
                 least == {s \in cands : valueOrZero(key, s) = minKey}
             IN  CHOOSE s \in least : \A o \in least \ {s} : keyLess(s, o)

mstNeighbors_KeepsFirst(adj, current, nbrs, visited, key, parent) ==
    LET fresh == {n \in DOMAIN adj[current] \ visited :
                    valueOrZero(key, n) = Infinity}
    IN  [key |-> [k \in DOMAIN key \cup fresh |->
                    IF k \in fresh THEN adj[current][k] ELSE key[k]],
         parent |-> [k \in DOMAIN parent \cup fresh |->
                    IF k \in fresh THEN current ELSE parent[k]]]

\* lines 351-357: the keys of the neighbors of current, in key order
RECURSIVE mstNeighbors(_, _, _, _, _, _)
mstNeighbors(adj, current, nbrs, visited, key, parent) ==
    IF nbrs = <<>> THEN [key |-> key, parent |-> parent]
    ELSE LET neighbor == Head(nbrs)
         IN  IF neighbor \notin visited
                /\ adj[current][neighbor] < valueOrZero(key, neighbor)
             THEN mstNeighbors(adj, current, Tail(nbrs), visited,
                               put(key, neighbor, adj[current][neighbor]),
                               put(parent, neighbor, current))
             ELSE mstNeighbors(adj, current, Tail(nbrs), visited, key, parent)

mstDisconnected_Partial(totalWeight, edges) ==
    [ret |-> totalWeight, mstEdges |-> edges]

\* lines 326-330: mstEdges.clear(); return 0.0
mstDisconnected(totalWeight, edges) == [ret |-> 0, mstEdges |-> <<>>]

\* lines 315-366: the loop of Prim's algorithm and the return after it
RECURSIVE mstLoop(_, _, _, _, _, _, _)
mstLoop(adj, start, visited, key, parent, totalWeight, edges) ==
    IF Cardinality(visited) < Cardinality(DOMAIN adj)
    THEN LET current == mstCurrent(adj, visited, key)
             visited1 == visited \cup {current}
             skipped == /\ current # start
                        /\ \/ current \notin DOMAIN parent
                           \/ parent[current] = <<>>
                           \/ parent[current] \notin DOMAIN adj
             selected == current # start /\ ~skipped
             r == mstNeighbors(adj, current, sortedKeys(DOMAIN adj[current]),
                               visited1, key, parent)
         IN  IF current = <<>> THEN mstDisconnected(totalWeight, edges)
             ELSE IF skipped
                  THEN mstLoop(adj, start, visited1, key, parent, totalWeight, edges)
             ELSE mstLoop(adj, start, visited1, r.key, r.parent,
                          IF selected THEN totalWeight + key[current]
                          ELSE totalWeight,
                          IF selected
                          THEN Append(edges, <<parent[current], current>>)
                          ELSE edges)
    ELSE [ret |-> totalWeight, mstEdges |-> edges]

\* minimumSpanningTree(mstEdges) on a store: its return value and the edges
\* it leaves in mstEdges
minimumSpanningTreeResult(adj, edges0) ==
    IF DOMAIN adj = {} THEN [ret |-> 0, mstEdges |-> <<>>]
    ELSE LET start == sortedKeys(DOMAIN adj)[1]
             key == put([s \in DOMAIN adj |-> Infinity], start, 0)
         IN  mstLoop(adj, start, {}, key, [s \in {} |-> <<>>], 0, <<>>)

\* lines 809-817: the stadiums the queue reaches
RECURSIVE reachedFrom(_, _, _)
reachedFrom(adj, queue, visited) ==
    IF queue = <<>> THEN visited
    ELSE LET current == Head(queue)
             new == SelectSeq(sortedKeys(DOMAIN adj[current]),
                              LAMBDA n : n \notin visited)
         IN  reachedFrom(adj, Tail(queue) \o new,
                         visited \cup {new[i] : i \in 1..Len(new)})

\* isConnected() on a store
isConnectedIn(adj) ==
    IF DOMAIN adj = {} THEN TRUE
    ELSE LET first == sortedKeys(DOMAIN adj)[1]
         IN  Cardinality(reachedFrom(adj, <<first>>, {first}))
               = Cardinality(DOMAIN adj)

minimumSpanningTree(edges0) ==
    LET out == minimumSpanningTreeResult(adjMatrix, edges0)
    IN  /\ call' = [op |-> "minimumSpanningTree", edges0 |-> edges0]
        /\ ret' = out.ret
        /\ mstEdges' = out.mstEdges
        /\ path' = <<>>
        /\ adjMatrix' = storeAfterConst(adjMatrix, {})

NextMST ==
    \/ \E name \in MstNames : addStadium(name)
    \/ \E e \in MstEdgeCalls : addEdge(e[1], e[2], e[3])
    \/ \E edges0 \in MstEdgeLists : minimumSpanningTree(edges0)

SpecMST == Init /\ [][NextMST]_vars

(* ----------------------------- greedyTrip ------------------------------ *)

nearestStops_Any(adj, current, unvisited) ==
    {s \in unvisited : getDistanceIn(adj, current, s) >= 0}

\* lines 480-497: the scan of the QSet unvisited keeps the first stop of least
\* direct distance in the set's iteration order, which is any stop of least
\* direct distance; no stop when none has a direct edge from current
nearestStops(adj, current, unvisited) ==
    LET direct == {s \in unvisited :
                     /\ getDistanceIn(adj, current, s) >= 0
                     /\ getDistanceIn(adj, current, s) < Infinity}
    IN  IF direct = {} THEN {}
        ELSE LET minDist == minOf({getDistanceIn(adj, current, s) : s \in direct})
             IN  {s \in direct : getDistanceIn(adj, current, s) = minDist}

\* lines 478-514: the loop over the stops left, and the two returns
RECURSIVE greedyLoop(_, _, _, _, _)
greedyLoop(adj, current, unvisited, order, totalDistance) ==
    IF unvisited = {} THEN {[ret |-> totalDistance, order |-> order]}
    ELSE LET nearest == nearestStops(adj, current, unvisited)
         IN  IF nearest = {} THEN {[ret |-> -1, order |-> order]}
             ELSE UNION {
                    greedyLoop(adj, n, unvisited \ {n}, Append(order, n),
                               totalDistance + getDistanceIn(adj, current, n))
                    : n \in nearest }

\* greedyTrip(start, stops, order) on a store: the set of the (ret, order) it
\* can return; order0 is what the caller's order held.
greedyTripOutcomes(adj, start, stops, order0) ==
    LET nStart == normalizeStadiumNameOf(start)
        normalizedStops == [i \in 1..Len(stops) |-> normalizeStadiumNameOf(stops[i])]
    IN  IF nStart \notin DOMAIN adj THEN {[ret |-> -1, order |-> order0]}
        ELSE IF stops = <<>> THEN {[ret |-> -1, order |-> order0]}
        ELSE IF \E i \in 1..Len(stops) : normalizedStops[i] \notin DOMAIN adj
             THEN {[ret |-> -1, order |-> order0]}
        ELSE greedyLoop(adj, nStart,
                        {normalizedStops[i] : i \in 1..Len(stops)},
                        <<nStart>>, 0)

greedyTrip(start, stops, order0) ==
    \E out \in greedyTripOutcomes(adjMatrix, start, stops, order0) :
        /\ call' = [op |-> "greedyTrip", start |-> start, stops |-> stops,
                    order0 |-> order0]
        /\ ret' = out.ret
        /\ path' = out.order
        /\ adjMatrix' = storeAfterConst(adjMatrix,
               {normalizeStadiumNameOf(start)}
               \cup {normalizeStadiumNameOf(stops[i]) : i \in 1..Len(stops)})
        /\ UNCHANGED mstEdges

NextTrip ==
    \/ \E name \in StadiumCalls : addStadium(name)
    \/ \E e \in TripEdgeCalls : addEdge(e[1], e[2], e[3])
    \/ \E start \in TripStarts, stops \in TripStops, order0 \in TripOrders :
          greedyTrip(start, stops, order0)

SpecTrip == Init /\ [][NextTrip]_vars

(* ----------------------------- dfs and bfs ----------------------------- *)

\* getNeighbors(stadium) on a store: the (neighbor, distance) pairs in key
\* order; stadium is looked up as given
getNeighborsIn(adj, stadium) ==
    IF stadium \in DOMAIN adj
    THEN LET keys == sortedKeys(DOMAIN adj[stadium])
         IN  [i \in 1..Len(keys) |-> <<keys[i], adj[stadium][keys[i]]>>]
    ELSE <<>>

\* std::sort by a.second < b.second: the pairs in ascending distance; the
\* order of pairs of equal distance is left to the sort, so every order is
\* an outcome
RECURSIVE sortedByWeight(_)
sortedByWeight(neighbors) ==
    IF neighbors = <<>> THEN {<<>>}
    ELSE LET n == Len(neighbors)
             least == {i \in 1..n :
                         \A j \in 1..n : neighbors[i][2] <= neighbors[j][2]}
         IN  UNION {
               {<<neighbors[i]>> \o rest :
                    rest \in sortedByWeight(
                               [k \in 1..(n - 1) |->
                                   IF k < i THEN neighbors[k] ELSE neighbors[k + 1]])}
               : i \in least }

MAX_DEPTH_Zero(adj) == 0

\* line 377
MAX_DEPTH(adj) == Cardinality(DOMAIN adj) + 10

\* lines 378-408: dfsVisit and its loop over the sorted neighbors.  st holds
\* the captured visited, order, totalDistance and recursionDepth, and two
\* observations: the deepest recursionDepth reached and whether the depth
\* guard of line 379 has returned.
RECURSIVE dfsVisit(_, _, _, _)
RECURSIVE dfsNeighbors(_, _, _, _, _)
dfsVisit(adj, stadium, st, maxDepth) ==
    IF st.recursionDepth > maxDepth THEN {[st EXCEPT !.capped = TRUE]}
    ELSE LET entered == [st EXCEPT
                           !.recursionDepth = @ + 1,
                           !.visited = @ \cup {stadium},
                           !.order = Append(@, stadium),
                           !.deepest = IF st.recursionDepth + 1 > @
                                       THEN st.recursionDepth + 1 ELSE @]
         IN  UNION {
               {[s EXCEPT !.recursionDepth = @ - 1] :
                    s \in dfsNeighbors(adj, stadium, nbrs, entered, maxDepth)}
               : nbrs \in sortedByWeight(getNeighborsIn(adj, stadium)) }

dfsNeighbors(adj, stadium, nbrs, st, maxDepth) ==
    IF nbrs = <<>> THEN {st}
    ELSE LET neighbor == Head(nbrs)
         IN  IF neighbor[1] = stadium
             THEN dfsNeighbors(adj, stadium, Tail(nbrs), st, maxDepth)
             ELSE IF neighbor[1] \notin DOMAIN adj
             THEN dfsNeighbors(adj, stadium, Tail(nbrs), st, maxDepth)
             ELSE IF neighbor[1] \notin st.visited
             THEN UNION {
                    dfsNeighbors(adj, stadium, Tail(nbrs), s, maxDepth)
                    : s \in dfsVisit(adj, neighbor[1],
                                     [st EXCEPT !.totalDistance = @ + neighbor[2]],
                                     maxDepth) }
             ELSE dfsNeighbors(adj, stadium, Tail(nbrs), st, maxDepth)

\* dfs(start, order) on a store: the set of the (ret, order) it can return,
\* each with the two observations of the run
dfsOutcomes(adj, start, order0) ==
    IF start \notin DOMAIN adj
    THEN {[ret |-> -1, order |-> <<>>, deepest |-> 0, capped |-> FALSE]}
    ELSE {[ret |-> s.totalDistance, order |-> s.order,
           deepest |-> s.deepest, capped |-> s.capped] :
            s \in dfsVisit(adj, start,
                           [visited |-> {}, order |-> <<>>, totalDistance |-> 0,
                            recursionDepth |-> 0, deepest |-> 0, capped |-> FALSE],
                           MAX_DEPTH(adj))}

dfs(start, order0) ==
    \E out \in dfsOutcomes(adjMatrix, start, order0) :
        /\ call' = [op |-> "dfs", start |-> start,
                    deepest |-> out.deepest, capped |-> out.capped]
        /\ ret' = out.ret
        /\ path' = out.order
        /\ adjMatrix' = storeAfterConst(adjMatrix, {start})
        /\ UNCHANGED mstEdges

RECURSIVE bfsNeighbors_CountsInspected(_, _, _, _, _)
bfsNeighbors_CountsInspected(nbrs, visited, queue, order, totalDistance) ==
    IF nbrs = <<>>
    THEN [visited |-> visited, queue |-> queue, order |-> order,
          totalDistance |-> totalDistance]
    ELSE LET neighbor == Head(nbrs)
         IN  IF neighbor[1] \notin visited
             THEN bfsNeighbors_CountsInspected(Tail(nbrs),
                      visited \cup {neighbor[1]}, Append(queue, neighbor[1]),
                      Append(order, neighbor[1]), totalDistance + neighbor[2])
             ELSE bfsNeighbors_CountsInspected(Tail(nbrs), visited, queue, order,
                      totalDistance + neighbor[2])

\* lines 434-441: the loop over the sorted neighbors of the dequeued stadium
RECURSIVE bfsNeighbors(_, _, _, _, _)
bfsNeighbors(nbrs, visited, queue, order, totalDistance) ==
    IF nbrs = <<>>
    THEN [visited |-> visited, queue |-> queue, order |-> order,
          totalDistance |-> totalDistance]
    ELSE LET neighbor == Head(nbrs)
         IN  IF neighbor[1] \notin visited
             THEN bfsNeighbors(Tail(nbrs), visited \cup {neighbor[1]},
                               Append(queue, neighbor[1]),
                               Append(order, neighbor[1]),
                               totalDistance + neighbor[2])
             ELSE bfsNeighbors(Tail(nbrs), visited, queue, order, totalDistance)

\* lines 427-444: the queue loop and the return after it
RECURSIVE bfsLoop(_, _, _, _, _)
bfsLoop(adj, queue, visited, order, totalDistance) ==
    IF queue = <<>> THEN {[ret |-> totalDistance, order |-> order]}
    ELSE LET current == Head(queue)
         IN  UNION {
               LET r == bfsNeighbors(nbrs, visited, Tail(queue), order, totalDistance)
               IN  bfsLoop(adj, r.queue, r.visited, r.order, r.totalDistance)
               : nbrs \in sortedByWeight(getNeighborsIn(adj, current)) }

\* bfs(start, order) on a store: the set of the (ret, order) it can return
bfsOutcomes(adj, start, order0) ==
    IF start \notin DOMAIN adj THEN {[ret |-> -1, order |-> <<>>]}
    ELSE bfsLoop(adj, <<start>>, {start}, <<start>>, 0)

bfs(start, order0) ==
    \E out \in bfsOutcomes(adjMatrix, start, order0) :
        /\ call' = [op |-> "bfs", start |-> start]
        /\ ret' = out.ret
        /\ path' = out.order
        /\ adjMatrix' = storeAfterConst(adjMatrix, {start})
        /\ UNCHANGED mstEdges

NextTraverse ==
    \/ \E name \in MstNames : addStadium(name)
    \/ \E e \in TraverseEdgeCalls : addEdge(e[1], e[2], e[3])
    \/ \E start \in TraverseNames, order0 \in TraverseOrders : dfs(start, order0)
    \/ \E start \in TraverseNames, order0 \in TraverseOrders : bfs(start, order0)

SpecTraverse == Init /\ [][NextTraverse]_vars

(* ------------------------------- queries ------------------------------ *)

\* validateGraphIntegrity() on a store
validateGraphIntegrityIn(adj) ==
    \A stadium \in DOMAIN adj :
        /\ trimmed(stadium) # <<>>
        /\ \A neighbor \in DOMAIN adj[stadium] : trimmed(neighbor) # <<>>

\* The value a query returns is held in ret (a bool as 1 or 0) or, when it
\* is a vector, in path.
getDistanceCall(from, to) ==
    /\ call' = [op |-> "getDistance", from |-> from, to |-> to]
    /\ ret' = getDistance(from, to)
    /\ path' = <<>>
    /\ adjMatrix' = storeAfterConst(adjMatrix, {normalizeStadiumNameOf(from),
                                                normalizeStadiumNameOf(to)})
    /\ UNCHANGED mstEdges

getStadiums ==
    /\ call' = [op |-> "getStadiums"]
    /\ ret' = 0
    /\ path' = sortedKeys(DOMAIN adjMatrix)
    /\ adjMatrix' = storeAfterConst(adjMatrix, {})
    /\ UNCHANGED mstEdges

getNeighbors(stadium) ==
    /\ call' = [op |-> "getNeighbors", stadium |-> stadium]
    /\ ret' = 0
    /\ path' = getNeighborsIn(adjMatrix, stadium)
    /\ adjMatrix' = storeAfterConst(adjMatrix, {stadium})
    /\ UNCHANGED mstEdges

validateGraphIntegrity ==
    /\ call' = [op |-> "validateGraphIntegrity"]
    /\ ret' = IF validateGraphIntegrityIn(adjMatrix) THEN 1 ELSE 0
    /\ path' = <<>>
    /\ adjMatrix' = storeAfterConst(adjMatrix, {})
    /\ UNCHANGED mstEdges

isConnected ==
    /\ call' = [op |-> "isConnected"]
    /\ ret' = IF isConnectedIn(adjMatrix) THEN 1 ELSE 0
    /\ path' = <<>>
    /\ adjMatrix' = storeAfterConst(adjMatrix, {})
    /\ UNCHANGED mstEdges

NextQuery ==
    \/ \E name \in StadiumCalls : addStadium(name)
    \/ \E e \in TripEdgeCalls : addEdge(e[1], e[2], e[3])
    \/ clear
    \/ cleanAdjacencyMatrix
    \/ removeEmptyKeysAndNeighbors
    \/ \E from \in CallNames, to \in CallNames : getDistanceCall(from, to)
    \/ getStadiums
    \/ \E stadium \in CallNames : getNeighbors(stadium)
    \/ validateGraphIntegrity
    \/ isConnected
    \/ \E start \in CallNames, end \in CallNames, path0 \in QueryPaths :
          dijkstra(start, end, path0)
    \/ \E start \in CallNames, end \in CallNames, path0 \in QueryPaths :
          aStar(start, end, path0)
    \/ \E edges0 \in QueryEdgeLists : minimumSpanningTree(edges0)
    \/ \E start \in CallNames, order0 \in TraverseOrders : dfs(start, order0)
    \/ \E start \in CallNames, order0 \in TraverseOrders : bfs(start, order0)
    \/ \E start \in TripStarts, stops \in QueryStops, order0 \in QueryPaths :
          greedyTrip(start, stops, order0)

SpecQuery == Init /\ [][NextQuery]_vars

\* The algorithms with a bound on their loops or none, run side by side.
NextCaps ==
    \/ \E name \in StadiumCalls : addStadium(name)
    \/ \E e \in EdgeCalls : addEdge(e[1], e[2], e[3])
    \/ \E start \in CallNames, end \in CallNames, path0 \in QueryPaths :
          dijkstra(start, end, path0)
    \/ \E start \in CallNames, end \in CallNames, path0 \in QueryPaths :
          aStar(start, end, path0)
    \/ \E start \in TraverseNames, order0 \in TraverseOrders : dfs(start, order0)

SpecCaps == Init /\ [][NextCaps]_vars

(* ------------------------- claims on the store ------------------------- *)

validName(name) == normalizeStadiumNameOf(name) # <<>>

samePair(f, t, x, y) ==
    {normalizeStadiumNameOf(f), normalizeStadiumNameOf(t)}
        = {normalizeStadiumNameOf(x), normalizeStadiumNameOf(y)}

\* the undirected edges of the store, each the set of its endpoints
storedEdges == {{k, n} : k \in DOMAIN adjMatrix, n \in DOMAIN adjMatrix}
                 \cap {{k, n} : <<k, n>> \in
                         UNION {{<<k, n>> : n \in DOMAIN adjMatrix[k]} :
                                  k \in DOMAIN adjMatrix}}

\* C1: the store is symmetric: getDistance(A,B) = getDistance(B,A) for all
\* names A and B (both the stored weight, or both -1), in every state reached
\* by addStadium, addEdge, clear, cleanAdjacencyMatrix and
\* removeEmptyKeysAndNeighbors.
C1_Symmetric ==
    \A A \in RawNames, B \in RawNames : getDistance(A, B) = getDistance(B, A)

\* an edge between two distinct keys is stored
C1_Witness ==
    /\ getDistance(<<"a">>, <<"b">>) = 2
    /\ getDistance(<<"a", "b">>, <<"a">>) = 1

\* C2: no key is its own neighbor: getDistance(K,K) = -1 for every key K.
C2_NoSelfLoop ==
    \A K \in DOMAIN adjMatrix : K \notin DOMAIN adjMatrix[K]

\* C3: in every reachable store, addEdge(f,t,d) with valid names and d > 0
\* leaves d as the weight of the pair in both directions whatever was stored
\* for it before (last write wins, nothing is added up), and changes the
\* weight of no other pair of keys.
C3_Overwrite ==
    \A f \in RawNames, t \in RawNames, d \in Distances :
      (validName(f) /\ validName(t) /\ d > 0)
      => LET post == addEdgeStore(adjMatrix, f, t, d)
         IN  /\ getDistanceIn(post, f, t) = d
             /\ getDistanceIn(post, t, f) = d
             /\ \A x \in AllKeys, y \in AllKeys :
                   ~samePair(f, t, x, y)
                   => getDistanceIn(post, x, y) = getDistance(x, y)

\* an addEdge replaced a different weight while another edge was stored
C3_Witness ==
    /\ call.op = "addEdge"
    /\ call.replaced
    /\ Cardinality(storedEdges) >= 2

\* C4: in every reachable store, addEdge with an invalid name or with
\* distance <= 0, and addStadium with an invalid name or with a name whose key
\* exists, return the store as it was.
C4_NoOp ==
    /\ \A f \in RawNames, t \in RawNames, d \in Distances :
          (~validName(f) \/ ~validName(t) \/ d <= 0)
          => addEdgeStore(adjMatrix, f, t, d) = adjMatrix
    /\ \A n \in RawNames :
          (~validName(n) \/ normalizeStadiumNameOf(n) \in DOMAIN adjMatrix)
          => addStadiumStore(adjMatrix, n) = adjMatrix

\* a rejected addEdge has run on a store that holds an edge
C4_Witness ==
    /\ call.op = "addEdge"
    /\ call.rejected
    /\ storedEdges # {}

(* ---------------------- claims on the shortest path -------------------- *)

\* the sequences of n distinct keys of a store
distinctSeqs(keys, n) ==
    {p \in [1..n -> keys] : \A i \in 1..n, j \in 1..n : i # j => p[i] # p[j]}

\* p walks stored edges only
followsEdges(adj, p) ==
    \A i \in 1..(Len(p) - 1) : p[i + 1] \in DOMAIN adj[p[i]]

\* the simple paths of a store from key s to key e
simplePaths(adj, s, e) ==
    {p \in UNION {distinctSeqs(DOMAIN adj, n) : n \in 1..Cardinality(DOMAIN adj)} :
        p[1] = s /\ p[Len(p)] = e /\ followsEdges(adj, p)}

RECURSIVE pathWeight(_, _)
pathWeight(adj, p) ==
    IF Len(p) <= 1 THEN 0
    ELSE adj[p[1]][p[2]] + pathWeight(adj, Tail(p))

\* C5: when dijkstra is called on two present nodes with end reachable from
\* start, it returns the least total weight of a simple path from start to
\* end (0 when start = end).
C5_Optimal ==
    (call.op = "dijkstra"
       /\ normalizeStadiumNameOf(call.start) \in DOMAIN adjMatrix
       /\ normalizeStadiumNameOf(call.end) \in DOMAIN adjMatrix)
    => LET paths == simplePaths(adjMatrix, normalizeStadiumNameOf(call.start),
                                normalizeStadiumNameOf(call.end))
       IN  paths # {} => ret = minOf({pathWeight(adjMatrix, p) : p \in paths})

\* dijkstra returned a two-edge path that is shorter than the direct edge
C5_Witness ==
    /\ call.op = "dijkstra"
    /\ ret = 2
    /\ Len(path) = 3
    /\ getDistance(call.start, call.end) = 3

\* C6: when dijkstra returns a weight other than -1, path starts with the
\* normalized start, ends with the normalized end, walks stored edges, repeats
\* no node, and its edge weights add up to the returned weight.
C6_PathValid ==
    (call.op = "dijkstra" /\ ret # -1)
    => /\ path # <<>>
       /\ path[1] = normalizeStadiumNameOf(call.start)
       /\ path[Len(path)] = normalizeStadiumNameOf(call.end)
       /\ \A i \in 1..Len(path) : path[i] \in DOMAIN adjMatrix
       /\ followsEdges(adjMatrix, path)
       /\ \A i \in 1..Len(path), j \in 1..Len(path) : i # j => path[i] # path[j]
       /\ ret = pathWeight(adjMatrix, path)

\* dijkstra returned a path over two edges of different weights
C6_Witness ==
    /\ call.op = "dijkstra"
    /\ ret = 3
    /\ Len(path) = 3
    /\ getDistance(path[1], path[2]) # getDistance(path[2], path[3])

\* C7: aStar(start, end) returns the total weight dijkstra(start, end)
\* returns, for every pair of names a caller passes.
C7_SameWeight ==
    call.op = "aStar"
    => ret \in {o.ret : o \in dijkstraOutcomes(adjMatrix, call.start, call.end,
                                               call.path0)}

\* C8: when dijkstra or aStar returns -1, the caller's path is empty.
C8_FailureEmptiesPath ==
    (call.op \in {"dijkstra", "aStar"} /\ ret = -1) => path = <<>>

(* -------------------- claims on the spanning tree ---------------------- *)

\* the edges between distinct keys of a store, each the set of its endpoints
properEdges(adj) ==
    {e \in UNION {{{k, n} : n \in DOMAIN adj[k]} : k \in DOMAIN adj} :
        Cardinality(e) = 2}

\* the keys joined to key k by a set of edges
RECURSIVE joined(_, _)
joined(edges, seen) ==
    LET more == {k \in UNION edges : \E e \in edges : k \in e /\ e \cap seen # {}}
    IN  IF more \subseteq seen THEN seen ELSE joined(edges, seen \cup more)

\* the edge sets that are spanning trees of a store
spanningTrees(adj) ==
    {t \in SUBSET properEdges(adj) :
        /\ Cardinality(t) = Cardinality(DOMAIN adj) - 1
        /\ \A k \in DOMAIN adj : joined(t, {k}) = DOMAIN adj}

edgeWeight(adj, e) ==
    LET k == CHOOSE x \in e : TRUE
        n == CHOOSE x \in e : x # k
    IN  adj[k][n]

RECURSIVE sumWeights(_, _)
sumWeights(adj, edges) ==
    IF edges = {} THEN 0
    ELSE LET e == CHOOSE x \in edges : TRUE
         IN  edgeWeight(adj, e) + sumWeights(adj, edges \ {e})

\* the edge list of the last call, as a set of endpoint sets
returnedEdges == {{mstEdges[i][1], mstEdges[i][2]} : i \in 1..Len(mstEdges)}

\* C9: on a connected store of n >= 1 nodes minimumSpanningTree returns n-1
\* (parent, child) pairs, each a stored edge, that form a spanning tree; the
\* returned weight is the sum of their stored weights, and no spanning tree of
\* the store weighs less.
C9_MinimumSpanningTree ==
    (call.op = "minimumSpanningTree"
       /\ DOMAIN adjMatrix # {} /\ isConnectedIn(adjMatrix))
    => /\ Len(mstEdges) = Cardinality(DOMAIN adjMatrix) - 1
       /\ \A i \in 1..Len(mstEdges) :
            /\ mstEdges[i][1] \in DOMAIN adjMatrix
            /\ mstEdges[i][2] \in DOMAIN adjMatrix[mstEdges[i][1]]
       /\ returnedEdges \in spanningTrees(adjMatrix)
       /\ ret = sumWeights(adjMatrix, returnedEdges)
       /\ \A t \in spanningTrees(adjMatrix) : ret <= sumWeights(adjMatrix, t)

\* a spanning tree of four nodes was returned although the store holds a
\* heavier spanning tree
C9_Witness ==
    /\ call.op = "minimumSpanningTree"
    /\ Len(mstEdges) = 3
    /\ \E t \in spanningTrees(adjMatrix) : ret < sumWeights(adjMatrix, t)

\* C10: on a store that is empty or not connected minimumSpanningTree returns
\* weight 0 and leaves mstEdges empty, whatever mstEdges held before.
C10_NoPartialTree ==
    (call.op = "minimumSpanningTree"
       /\ (DOMAIN adjMatrix = {} \/ ~isConnectedIn(adjMatrix)))
    => ret = 0 /\ mstEdges = <<>>

\* the call was made with a used edge list on a store whose first stadium has
\* a neighbor while another stadium is out of reach
C10_Witness ==
    /\ call.op = "minimumSpanningTree"
    /\ call.edges0 # <<>>
    /\ ~isConnectedIn(adjMatrix)
    /\ properEdges(adjMatrix) # {}
    /\ DOMAIN adjMatrix[sortedKeys(DOMAIN adjMatrix)[1]] # {}
    /\ mstEdges = <<>>

(* ---------------------- claims on the greedy trip ---------------------- *)

\* the keys the stops of the last greedyTrip call normalize to
requiredStops == {normalizeStadiumNameOf(call.stops[i]) : i \in 1..Len(call.stops)}

\* C11: whenever greedyTrip returns -1 the order it leaves is empty.
C11_FailureEmptiesOrder ==
    (call.op = "greedyTrip" /\ ret = -1) => path = <<>>

\* C12: whenever greedyTrip succeeds, order begins with the normalized start,
\* every later element is a required stop not yet taken as a hop, joined to
\* the element before it by a stored edge no longer than the edge to any
\* other stop not yet taken, and the total is the sum of the hops.
stopsLeft(i) == requiredStops \ {path[j] : j \in 2..(i - 1)}

C16_NoRepeatedKey ==
    (call.op = "greedyTrip" /\ ret # -1) =>
        /\ path # <<>>
        /\ path[1] = normalizeStadiumNameOf(call.start)
        /\ {path[i] : i \in 2..Len(path)} = requiredStops
        /\ Len(path) = 1 + Cardinality(requiredStops)
        /\ \A i \in 1..Len(path), j \in 1..Len(path) : path[i] = path[j] => i = j

(* ---------------------- claims on the traversals ----------------------- *)

\* the stadiums joined to s by a chain of stored edges
RECURSIVE closure(_, _)
closure(adj, S) ==
    LET T == S \cup UNION {DOMAIN adj[k] : k \in S \cap DOMAIN adj}
    IN  IF T = S THEN S ELSE closure(adj, T)

\* the places before place i of path whose stadium has an edge to path[i]
discoverers(i) == {j \in 1..(i - 1) : path[i] \in DOMAIN adjMatrix[path[j]]}

\* the place of the stadium from which path[i] was first discovered: the
\* earliest such place in a breadth-first order, the latest in a depth-first
discoveredFrom(i) ==
    IF call.op = "bfs"
    THEN CHOOSE j \in discoverers(i) : \A k \in discoverers(i) : j <= k
    ELSE CHOOSE j \in discoverers(i) : \A k \in discoverers(i) : j >= k

RECURSIVE discoveryWeight(_)
discoveryWeight(i) ==
    IF i < 2 THEN 0
    ELSE adjMatrix[path[discoveredFrom(i)]][path[i]] + discoveryWeight(i - 1)

\* C13: dfs and bfs from a present start return a sequence that begins with
\* start and holds every stadium reachable from it once and no other, and
\* the sum of the weights of the edges over which each stadium after the
\* start was first discovered.
C13_VisitsReachableOnce ==
    (call.op \in {"dfs", "bfs"} /\ call.start \in DOMAIN adjMatrix) =>
        /\ path # <<>>
        /\ path[1] = call.start
        /\ {path[i] : i \in 1..Len(path)} = closure(adjMatrix, {call.start})
        /\ \A i \in 1..Len(path), j \in 1..Len(path) : path[i] = path[j] => i = j
        /\ \A i \in 2..Len(path) : discoverers(i) # {}
        /\ ret = discoveryWeight(Len(path))

\* a depth-first run over three stadiums of a triangle, the third discovered
\* from the second although the start has an edge to it too, with a fourth
\* stadium out of reach
C13_Witness ==
    /\ call.op = "dfs"
    /\ Len(path) = 3
    /\ Cardinality(DOMAIN adjMatrix) = 4
    /\ path[3] \in DOMAIN adjMatrix[path[1]]
    /\ path[3] \in DOMAIN adjMatrix[path[2]]
    /\ ret = adjMatrix[path[1]][path[2]] + adjMatrix[path[2]][path[3]]
    /\ ret # adjMatrix[path[1]][path[2]] + adjMatrix[path[1]][path[3]]

(* ------------------------ claims on the queries ------------------------ *)

\* the queries and the algorithms
ConstMembers ==
    { "getDistance", "getStadiums", "getNeighbors", "validateGraphIntegrity",
      "isConnected", "dijkstra", "aStar", "minimumSpanningTree", "dfs", "bfs",
      "greedyTrip" }

\* C14: a call of a query or an algorithm, whatever its arguments, leaves
\* the keys of the store and every neighbor map as they were.
C14_QueriesKeepStore ==
    [][call'.op \in ConstMembers => adjMatrix' = adjMatrix]_vars

\* getNeighbors was asked for a name that is no key as given, though it
\* normalizes to a stored key with neighbors
C14_Witness ==
    /\ call.op = "getNeighbors"
    /\ call.stadium \notin DOMAIN adjMatrix
    /\ normalizeStadiumNameOf(call.stadium) \in DOMAIN adjMatrix
    /\ adjMatrix[normalizeStadiumNameOf(call.stadium)] # emptyNeighbors
    /\ path = <<>>

(* ----------------------- claims on termination ------------------------- *)

\* C15: on every store the mutations reach, no run of dijkstra ends a loop
\* on its count (the main loop stays within 2 x the number of stadiums, the
\* walk back within that number + 1), dfs never goes deeper than the number
\* of stadiums + 10 nor returns on its depth guard, and every run of aStar
\* comes to its return.
C15_CapsNeverReached ==
    /\ call.op = "dijkstra" =>
          \A r \in dijkstraRuns(adjMatrix, call.start, call.end, call.path0) :
              /\ ~r.capped
              /\ r.iterationCount <= 2 * Cardinality(DOMAIN adjMatrix)
              /\ r.pathLength < Cardinality(DOMAIN adjMatrix) + 1
    /\ call.op = "dfs" =>
          /\ ~call.capped
          /\ call.deepest <= Cardinality(DOMAIN adjMatrix) + 10
    /\ \A start \in CallNames, end \in CallNames :
          \A out \in aStarOutcomes(adjMatrix, start, end, <<>>) : out.terminates

\* aStar returned a weight below that of the direct edge from start to end:
\* end was put into the open set a second time
C15_Witness ==
    /\ call.op = "aStar"
    /\ call.start # call.end
    /\ ret # -1
    /\ getDistance(call.start, call.end) > ret

====
